---- MODULE Spec2Model ----
(***************************************************************************)
(* A model of qiskit/providers/ibmq/ibmqbackend.py: the IBMQBackend handle *)
(* and its operations properties(), jobs() and retrieve_job().             *)
(*                                                                         *)
(* The handle keeps no mutable state of its own.  What the model records   *)
(* is one call at a time: the operation and its arguments, the calls it    *)
(* made on the injected API client together with the client's replies, the *)
(* warnings it emitted and how it ended (a value or an exception).         *)
(*                                                                         *)
(* Python values are modelled as follows.                                  *)
(*   - a str s               : Str(s)                                      *)
(*   - a one-entry dict {k:v}: Dict1(k, v)                                 *)
(*   - None                  : None                                        *)
(*   - a dict with str keys  : a function whose DOMAIN is the key set      *)
(*   - a formatted message   : the sequence of its literal and formatted   *)
(*                             parts, in order                             *)
(***************************************************************************)
EXTENDS Naturals, Sequences, FiniteSets, TLC

VARIABLES config, op, args, apiCalls, apiReplies, warned, result

vars == <<config, op, args, apiCalls, apiReplies, warned, result>>

----------------------------------------------------------------------------
(* Bounds of the model. *)

\* longest job-info list the API client returns from get_status_jobs
MaxJobs == 3
\* largest number of keys in a caller-supplied db_filter
MaxFilterKeys == 2

(* Program constants. *)

\* jobs(limit=50, ...)
DefaultLimit == 50
\* jobs(..., skip=0, ...)
DefaultSkip == 0

----------------------------------------------------------------------------
(* Python values. *)

Str(s) == [t |-> "str", k |-> "", v |-> s]
Dict1(key, val) == [t |-> "dict", k |-> key, v |-> val]
None == [t |-> "none", k |-> "", v |-> ""]

EmptyDict == [x \in {} |-> None]

\* d.get(key, None)
Get(d, key) == IF key \in DOMAIN d THEN d[key] ELSE None

\* {**under, **over}, and under.update(over): over wins on shared keys
Merge(under, over) ==
    [x \in DOMAIN under \cup DOMAIN over |->
        IF x \in DOMAIN over THEN over[x] ELSE under[x]]

\* '{}'.format(val) of a str value
Fmt(val) == val.v

----------------------------------------------------------------------------
(* qiskit.providers.JobStatus, the enum jobs() takes its status from. *)

JobStatus ==
    {"INITIALIZING", "QUEUED", "VALIDATING", "RUNNING", "CANCELLED", "DONE",
     "ERROR"}

\* the status argument: None, a str, a JobStatus member, or another object
NoStatus == [t |-> "none", v |-> ""]
StatusStr(s) == [t |-> "str", v |-> s]
StatusEnum(m) == [t |-> "enum", v |-> m]

\* `if status:` -- None and '' are falsy, enum members and other objects truthy
StatusTruthy(status) ==
    CASE status.t = "none" -> FALSE
      [] status.t = "str" -> status.v # ""
      [] OTHER -> TRUE

\* `if isinstance(status, str): status = JobStatus[status]`
\* a name that is no member raises KeyError
CoerceRaises(status) == status.t = "str" /\ status.v \notin JobStatus
Coerce(status) ==
    IF status.t = "str" THEN StatusEnum(status.v) ELSE status

----------------------------------------------------------------------------
(* jobs(): the filter handed to get_status_jobs. *)

\* the if/elif chain on the coerced status decides a predicate set ...
Recognized(status) ==
    \/ status = StatusEnum("RUNNING")
    \/ status = StatusEnum("QUEUED")
    \/ status = StatusEnum("CANCELLED")
    \/ status = StatusEnum("DONE")
    \/ status = StatusEnum("ERROR")

this_filter_DoneAsName(status) ==
    CASE status = StatusEnum("RUNNING") ->
            ("status" :> Str("RUNNING") @@ "infoQueue" :> Dict1("exists", "False"))
      [] status = StatusEnum("QUEUED") ->
            ("status" :> Str("RUNNING")
                @@ "infoQueue.status" :> Str("PENDING_IN_QUEUE"))
      [] status = StatusEnum("CANCELLED") -> ("status" :> Str("CANCELLED"))
      [] status = StatusEnum("DONE") -> ("status" :> Str("DONE"))
      [] status = StatusEnum("ERROR") -> ("status" :> Dict1("regexp", "^ERROR"))

\* ... namely this one (False is written "False")
this_filter(status) ==
    CASE status = StatusEnum("RUNNING") ->
            ("status" :> Str("RUNNING") @@ "infoQueue" :> Dict1("exists", "False"))
      [] status = StatusEnum("QUEUED") ->
            ("status" :> Str("RUNNING")
                @@ "infoQueue.status" :> Str("PENDING_IN_QUEUE"))
      [] status = StatusEnum("CANCELLED") -> ("status" :> Str("CANCELLED"))
      [] status = StatusEnum("DONE") -> ("status" :> Str("COMPLETED"))
      [] status = StatusEnum("ERROR") -> ("status" :> Dict1("regexp", "^ERROR"))

\* the exception the status block ends in, "" when it ends in none
StatusRaises(status) ==
    IF ~StatusTruthy(status) THEN ""
    ELSE IF CoerceRaises(status) THEN "KeyError"
    ELSE IF ~Recognized(Coerce(status)) THEN "IBMQBackendValueError"
    ELSE ""

\* the db_filter argument: None, or a dict
NoDbFilter == [none |-> TRUE, d |-> EmptyDict]
DbFilter(d) == [none |-> FALSE, d |-> d]

\* `if db_filter:` -- None and {} are falsy
DbFilterTruthy(db_filter) == ~db_filter.none /\ DOMAIN db_filter.d # {}

with_db_filter_DbWins(d, api_filter) == Merge(api_filter, d)

\* api_filter = {**db_filter, **api_filter}
with_db_filter(d, api_filter) == Merge(d, api_filter)

\* api_filter as passed to get_status_jobs (the status block has not raised)
api_filter(backend_name, status, db_filter) ==
    LET base == ("backend.name" :> Str(backend_name))
        with_status ==
            IF StatusTruthy(status)
            THEN Merge(base, this_filter(Coerce(status)))
            ELSE base
    IN  IF DbFilterTruthy(db_filter)
        THEN with_db_filter(db_filter.d, with_status)
        ELSE with_status

----------------------------------------------------------------------------
(* jobs(): from the job-info list to the IBMQJob list. *)

\* IBMQJob(self, job_info.get('id'), self._api, creation_date=..., api_status=...)
IBMQJob(job_info) ==
    [job_id |-> Get(job_info, "id"),
     creation_date |-> Get(job_info, "creationDate"),
     api_status |-> Get(job_info, "status")]

\* job_info.get('kind', None) != 'q-object'
PreQobj(job_info) == Get(job_info, "kind") # Str("q-object")

RECURSIVE for_job_info_Continue(_, _, _, _)
for_job_info_Continue(job_info_list, i, job_list, old_format_jobs) ==
    IF i > Len(job_info_list)
    THEN [job_list |-> job_list, old_format_jobs |-> old_format_jobs]
    ELSE IF PreQobj(job_info_list[i])
    THEN for_job_info_Continue(job_info_list, i + 1, job_list,
            Append(old_format_jobs, Get(job_info_list[i], "id")))
    ELSE for_job_info_Continue(job_info_list, i + 1,
            Append(job_list, IBMQJob(job_info_list[i])), old_format_jobs)

\* the for loop from its i-th record on: a pre-qobj record appends its id and
\* breaks, any other record appends an IBMQJob
RECURSIVE for_job_info(_, _, _, _)
for_job_info(job_info_list, i, job_list, old_format_jobs) ==
    IF i > Len(job_info_list)
    THEN [job_list |-> job_list, old_format_jobs |-> old_format_jobs]
    ELSE IF PreQobj(job_info_list[i])
    THEN [job_list |-> job_list,
          old_format_jobs |->
              Append(old_format_jobs, Get(job_info_list[i], "id"))]
    ELSE for_job_info(job_info_list, i + 1,
            Append(job_list, IBMQJob(job_info_list[i])), old_format_jobs)

\* sep.join(xs), as the sequence of its parts
RECURSIVE Join(_, _)
Join(sep, xs) ==
    IF Len(xs) = 0 THEN <<>>
    ELSE IF Len(xs) = 1 THEN <<Fmt(xs[1])>>
    ELSE <<Fmt(xs[1]), sep>> \o Join(sep, Tail(xs))

OldJobsText ==
    "Some jobs are in a no-longer supported format. Please send the job using Qiskit 0.8+. Old jobs:\n - "

\* the warnings of `if old_format_jobs: ... warnings.warn(..., DeprecationWarning)`
old_format_warning(old_format_jobs) ==
    IF Len(old_format_jobs) > 0
    THEN <<[category |-> "DeprecationWarning",
            msg |-> <<OldJobsText>> \o Join("\n - ", old_format_jobs)]>>
    ELSE <<>>

----------------------------------------------------------------------------
(* How a call ends, and what it asks of the API client. *)

Raise(exc, msg) ==
    [kind |-> "raise", exc |-> exc, msg |-> msg, value |-> "", jobs |-> <<>>]
Return(value, jobs) ==
    [kind |-> "return", exc |-> "", msg |-> <<>>, value |-> value, jobs |-> jobs]
NoResult == [kind |-> "none", exc |-> "", msg |-> <<>>, value |-> "", jobs |-> <<>>]

ApiCall(fn, name, limit, skip, filter, job_id) ==
    [fn |-> fn, name |-> name, limit |-> limit, skip |-> skip,
     filter |-> filter, job_id |-> job_id]

\* the reply of get_job: an ApiError with its str(), or a job-info dict
ApiError(text) == [raises |-> TRUE, msg |-> text, job_info |-> EmptyDict]
JobReply(job_info) == [raises |-> FALSE, msg |-> "", job_info |-> job_info]

NoReplies ==
    [properties |-> "", status_jobs |-> <<>>, job |-> JobReply(EmptyDict)]

NoArgs ==
    [limit |-> DefaultLimit, skip |-> DefaultSkip, status |-> NoStatus,
     db_filter |-> NoDbFilter, job_id |-> ""]

----------------------------------------------------------------------------
(* properties() *)

properties_calls_Always(cfg) ==
    <<ApiCall("backend_properties", cfg.name, 0, 0, EmptyDict, "")>>

\* `if self.configuration().simulator: return None`, else one
\* self._api.backend_properties(self.name())
properties_calls(cfg) ==
    IF cfg.simulator
    THEN <<>>
    ELSE <<ApiCall("backend_properties", cfg.name, 0, 0, EmptyDict, "")>>

\* BackendProperties.from_dict(api_properties): unguarded, a malformed
\* response propagates the schema's ValidationError
properties_result(cfg, api_properties) ==
    IF cfg.simulator THEN Return("None", <<>>)
    ELSE IF api_properties = "valid" THEN Return("BackendProperties", <<>>)
    ELSE Raise("ValidationError", <<api_properties>>)

----------------------------------------------------------------------------
(* retrieve_job(): the checks of the try block.  Each gives the warnings it *)
(* emits and the exception it raises (none: <<>>).                          *)

Exc(exc, msg) == [exc |-> exc, msg |-> msg]
Passed == [warned |-> <<>>, raised |-> <<>>]

\* one statement after another: what follows a raise does not run
Then(a, b) ==
    IF a.raised # <<>> THEN a
    ELSE [warned |-> a.warned \o b.warned, raised |-> b.raised]

\* 'Failed to get job "{}": {}'.format(job_id, what)
FailedToGetJob(job_id, what) == <<"Failed to get job \"", job_id, "\": ", what>>

check_error_IfNoBackend(job_id, job_info) ==
    IF "error" \in DOMAIN job_info /\ "backend" \notin DOMAIN job_info
    THEN [warned |-> <<>>,
          raised |-> <<Exc("IBMQBackendError",
                           FailedToGetJob(job_id, Fmt(job_info["error"])))>>]
    ELSE Passed

\* # Check for generic errors.
check_error(job_id, job_info) ==
    IF "error" \in DOMAIN job_info
    THEN [warned |-> <<>>,
          raised |-> <<Exc("IBMQBackendError",
                           FailedToGetJob(job_id, Fmt(job_info["error"])))>>]
    ELSE Passed

AnotherBackendWarning(job_id, job_backend, backend_name) ==
    [category |-> "UserWarning",
     msg |-> <<"Job \"", job_id,
               "\" belongs to another backend than the one queried. The query was made on backend \"",
               job_backend, "\", but the job actually belongs to backend \"",
               backend_name, "\".">>]

check_backend_WarnOnly(backend_name, job_id, job_info) ==
    IF "backend" \notin DOMAIN job_info
    THEN [warned |-> <<>>, raised |-> <<Exc("KeyError", <<"backend">>)>>]
    ELSE IF job_info["backend"].k # "name"
    THEN [warned |-> <<>>, raised |-> <<Exc("KeyError", <<"name">>)>>]
    ELSE IF job_info["backend"].v # backend_name
    THEN [warned |-> <<AnotherBackendWarning(job_id, job_info["backend"].v,
                                             backend_name)>>,
          raised |-> <<>>]
    ELSE Passed

\* # Check for jobs from a different backend.
\* job_info['backend']['name'] raises KeyError when either key is missing
check_backend(backend_name, job_id, job_info) ==
    IF "backend" \notin DOMAIN job_info
    THEN [warned |-> <<>>, raised |-> <<Exc("KeyError", <<"backend">>)>>]
    ELSE IF job_info["backend"].k # "name"
    THEN [warned |-> <<>>, raised |-> <<Exc("KeyError", <<"name">>)>>]
    ELSE IF job_info["backend"].v # backend_name
    THEN [warned |-> <<AnotherBackendWarning(job_id, job_info["backend"].v,
                                             backend_name)>>,
          raised |-> <<Exc("IBMQBackendError",
                           <<"Failed to get job \"", job_id,
                             "\": job does not belong to backend \"",
                             job_info["backend"].v, "\".">>)>>]
    ELSE Passed

PreQobjWarning(job_id) ==
    [category |-> "DeprecationWarning",
     msg |-> <<"The result of job ", job_id,
               " is in a no longer supported format. Please send the job using Qiskit 0.8+.">>]

check_kind_Silent(job_id, job_info) ==
    IF PreQobj(job_info)
    THEN [warned |-> <<>>,
          raised |-> <<Exc("IBMQBackendError",
                           FailedToGetJob(job_id, "job in pre-qobj format"))>>]
    ELSE Passed

\* # Check for pre-qobj jobs.
check_kind(job_id, job_info) ==
    IF PreQobj(job_info)
    THEN [warned |-> <<PreQobjWarning(job_id)>>,
          raised |-> <<Exc("IBMQBackendError",
                           FailedToGetJob(job_id, "job in pre-qobj format"))>>]
    ELSE Passed

try_block_KindFirst(backend_name, job_id, job_info) ==
    Then(check_error(job_id, job_info),
         Then(check_kind(job_id, job_info),
              check_backend(backend_name, job_id, job_info)))

\* the three checks in the order of the try block
try_block(backend_name, job_id, job_info) ==
    Then(check_error(job_id, job_info),
         Then(check_backend(backend_name, job_id, job_info),
              check_kind(job_id, job_info)))

\* retrieve_job as a whole, on the reply of self._api.get_job(job_id):
\* `except ApiError as ex` re-raises the client's error as IBMQBackendError,
\* every other exception of the try block leaves the method as it is
retrieve_job(backend_name, job_id, reply) ==
    IF reply.raises
    THEN [warned |-> <<>>,
          result |-> Raise("IBMQBackendError", FailedToGetJob(job_id, reply.msg))]
    ELSE LET checked == try_block(backend_name, job_id, reply.job_info)
         IN  [warned |-> checked.warned,
              result |->
                  IF checked.raised # <<>>
                  THEN Raise(checked.raised[1].exc, checked.raised[1].msg)
                  ELSE Return("IBMQJob", <<IBMQJob(reply.job_info)>>)]

----------------------------------------------------------------------------
(* The handles, arguments and API replies the calls are drawn from. *)

Configurations ==
    {[name |-> "ibmqx4", simulator |-> FALSE],
     [name |-> "ibmq_qasm_simulator", simulator |-> TRUE]}

BackendNames == {cfg.name : cfg \in Configurations}

Limits == {DefaultLimit, 5}
Skips == {DefaultSkip}

StatusArgs ==
    {NoStatus, [t |-> "other", v |-> "7"]}
        \cup {StatusStr(s) : s \in JobStatus \cup {"", "FOO"}}
        \cup {StatusEnum(m) : m \in JobStatus}

FilterKeys == {"backend.name", "status", "infoQueue", "shots"}
FilterValues == {Str("COMPLETED"), Dict1("gt", "400")}

DbFilters ==
    {NoDbFilter} \cup
    {DbFilter(d) :
        d \in UNION {[K -> FilterValues] :
                        K \in {S \in SUBSET FilterKeys :
                                  Cardinality(S) <= MaxFilterKeys}}}

\* a job-info record of the API: id, creationDate and status, and kind when
\* `kind` is not None
JobInfo(id, kind) ==
    LET core == ("id" :> Str(id)
                    @@ "creationDate" :> Str(IF id = "j1" THEN "2019-03-01"
                                                         ELSE "2019-04-02")
                    @@ "status" :> Str(IF id = "j1" THEN "COMPLETED"
                                                     ELSE "RUNNING"))
    IN  IF kind = None THEN core ELSE core @@ "kind" :> kind

JobIds == {"j1", "j2"}
Kinds == {None, Str("q-object"), Str("other")}

RECURSIVE SeqsUpTo(_, _)
SeqsUpTo(S, n) ==
    IF n = 0 THEN {<<>>}
    ELSE LET shorter == SeqsUpTo(S, n - 1)
         IN  shorter \cup {Append(q, x) : q \in shorter, x \in S}

\* what get_status_jobs may return: two current jobs and two legacy ones, in
\* any order, repeated or not
JobInfoLists ==
    SeqsUpTo({JobInfo("j1", Str("q-object")), JobInfo("j2", Str("q-object")),
              JobInfo("j1", None), JobInfo("j2", Str("other"))}, MaxJobs)

\* what get_job may return: an ApiError, or a job-info dict in which error,
\* backend (with or without a name) and kind are each present or not
Backends ==
    {None, Dict1("id", "5ae875670f020500393162b3")}
        \cup {Dict1("name", n) : n \in BackendNames}

GetJobReplies ==
    {ApiError("Connection refused")} \cup
    {JobReply(
        LET a == JobInfo(id, kind)
            b == IF backend = None THEN a ELSE a @@ "backend" :> backend
        IN  IF error = None THEN b ELSE b @@ "error" :> error) :
        id \in JobIds, kind \in Kinds, backend \in Backends,
        error \in {None, Str("not found")}}

----------------------------------------------------------------------------
(* The calls. *)

Init ==
    /\ config \in Configurations
    /\ op = "idle"
    /\ args = NoArgs
    /\ apiCalls = <<>>
    /\ apiReplies = NoReplies
    /\ warned = <<>>
    /\ result = NoResult

\* backend.properties()
Properties ==
    /\ op = "idle"
    /\ op' = "properties"
    /\ args' = NoArgs
    /\ apiCalls' = properties_calls(config)
    /\ \E api_properties \in
            IF apiCalls' = <<>> THEN {""} ELSE {"valid", "malformed"} :
        /\ apiReplies' = [NoReplies EXCEPT !.properties = api_properties]
        /\ result' = properties_result(config, api_properties)
    /\ warned' = <<>>
    /\ UNCHANGED config

\* backend.jobs(limit, skip, status, db_filter)
Jobs ==
    /\ op = "idle"
    /\ op' = "jobs"
    /\ \E limit \in Limits, skip \in Skips, status \in StatusArgs,
          db_filter \in DbFilters :
        /\ args' = [NoArgs EXCEPT !.limit = limit, !.skip = skip,
                                  !.status = status, !.db_filter = db_filter]
        /\ IF StatusRaises(status) # ""
           THEN /\ apiCalls' = <<>>
                /\ apiReplies' = NoReplies
                /\ warned' = <<>>
                /\ result' =
                     Raise(StatusRaises(status),
                           IF StatusRaises(status) = "KeyError"
                           THEN <<status.v>>
                           ELSE <<"unrecognized value for \"status\" keyword in job filter">>)
           ELSE \E job_info_list \in JobInfoLists :
                LET done == for_job_info(job_info_list, 1, <<>>, <<>>)
                IN  /\ apiCalls' =
                         <<ApiCall("get_status_jobs", "", limit, skip,
                                   api_filter(config.name, status, db_filter),
                                   "")>>
                    /\ apiReplies' =
                         [NoReplies EXCEPT !.status_jobs = job_info_list]
                    /\ warned' = old_format_warning(done.old_format_jobs)
                    /\ result' = Return("list", done.job_list)
    /\ UNCHANGED config

\* backend.retrieve_job(job_id)
RetrieveJob ==
    /\ op = "idle"
    /\ op' = "retrieve_job"
    /\ \E job_id \in {"abc", "j1"}, reply \in GetJobReplies :
        LET done == retrieve_job(config.name, job_id, reply)
        IN  /\ args' = [NoArgs EXCEPT !.job_id = job_id]
            /\ apiCalls' = <<ApiCall("get_job", "", 0, 0, EmptyDict, job_id)>>
            /\ apiReplies' = [NoReplies EXCEPT !.job = reply]
            /\ warned' = done.warned
            /\ result' = done.result
    /\ UNCHANGED config

\* the call is over and the caller, single-threaded, is free to make the next
NextCall ==
    /\ op # "idle"
    /\ op' = "idle"
    /\ args' = NoArgs
    /\ apiCalls' = <<>>
    /\ apiReplies' = NoReplies
    /\ warned' = <<>>
    /\ result' = NoResult
    /\ UNCHANGED config

Next == Properties \/ Jobs \/ RetrieveJob \/ NextCall

Spec == Init /\ [][Next]_vars

----------------------------------------------------------------------------
(* The properties checked. *)

\* the five status values of the predicate table, and the table itself as the
\* specification of jobs() gives it
FiveStatuses == {"RUNNING", "QUEUED", "CANCELLED", "DONE", "ERROR"}

IsFive(status) == status.t \in {"str", "enum"} /\ status.v \in FiveStatuses

PredicateTable(V) ==
    CASE V = "RUNNING" ->
            [x \in {"status", "infoQueue"} |->
                IF x = "status" THEN Str("RUNNING") ELSE Dict1("exists", "False")]
      [] V = "QUEUED" ->
            [x \in {"status", "infoQueue.status"} |->
                IF x = "status" THEN Str("RUNNING") ELSE Str("PENDING_IN_QUEUE")]
      [] V = "CANCELLED" -> [x \in {"status"} |-> Str("CANCELLED")]
      [] V = "DONE" -> [x \in {"status"} |-> Str("COMPLETED")]
      [] V = "ERROR" -> [x \in {"status"} |-> Dict1("regexp", "^ERROR")]

\* backend.name, and the table's entry when the status is one of the five
OwnPredicates(name, status) ==
    LET base == [x \in {"backend.name"} |-> Str(name)]
    IN  IF IsFive(status)
        THEN [x \in {"backend.name"} \cup DOMAIN PredicateTable(status.v) |->
                IF x = "backend.name" THEN base[x]
                ELSE PredicateTable(status.v)[x]]
        ELSE base

NoExtraFilter == args.db_filter.none \/ DOMAIN args.db_filter.d = {}

Contains(msg, part) == \E i \in 1..Len(msg) : msg[i] = part

\* C1: jobs(status=V), V one of the five statuses as enum or as name and no
\* extra filter, makes one get_status_jobs call whose filter is exactly
\* backend.name = this backend's name plus the table's entry for V.
C1_StatusFilterIsTheTable ==
    (op = "jobs" /\ IsFive(args.status) /\ NoExtraFilter) =>
        /\ result.kind = "return"
        /\ Len(apiCalls) = 1
        /\ apiCalls[1].fn = "get_status_jobs"
        /\ apiCalls[1].filter = OwnPredicates(config.name, args.status)

C1_Witness ==
    /\ op = "jobs"
    /\ args.status = StatusStr("ERROR")
    /\ args.db_filter = NoDbFilter
    /\ Len(apiCalls) = 1
    /\ DOMAIN apiCalls[1].filter = {"backend.name", "status"}
    /\ apiCalls[1].filter["status"] = Dict1("regexp", "^ERROR")

\* C2: a status that is given (truthy) and is not one of the five recognized
\* values makes jobs() fail with IBMQBackendValueError.
C2_UnrecognizedStatusIsValueError ==
    (op = "jobs" /\ StatusTruthy(args.status) /\ ~IsFive(args.status)) =>
        /\ result.kind = "raise"
        /\ result.exc = "IBMQBackendValueError"

\* C3: in the filter jobs() passes, every key of backend.name and of the
\* status-derived predicates holds that value whatever db_filter says, every
\* key only db_filter defines holds db_filter's value, and there is no other.
C3_OwnPredicatesWin ==
    (op = "jobs" /\ apiCalls # <<>>) =>
        LET f == apiCalls[1].filter
            own == OwnPredicates(config.name, args.status)
            extra == args.db_filter.d
        IN  /\ DOMAIN f = DOMAIN own \cup DOMAIN extra
            /\ \A x \in DOMAIN own : f[x] = own[x]
            /\ \A x \in DOMAIN extra \ DOMAIN own : f[x] = extra[x]

C3_Witness ==
    /\ op = "jobs"
    /\ args.status = StatusEnum("DONE")
    /\ DOMAIN args.db_filter.d = {"status", "shots"}
    /\ args.db_filter.d["status"] = Dict1("gt", "400")
    /\ args.db_filter.d["shots"] = Dict1("gt", "400")
    /\ Len(apiCalls) = 1
    /\ apiCalls[1].filter["status"] = Str("COMPLETED")
    /\ apiCalls[1].filter["shots"] = Dict1("gt", "400")

\* C4: properties() of a simulator returns None without calling the API
\* client; of a device it makes exactly one backend_properties call, with
\* this backend's name.
C4_SimulatorHasNoProperties ==
    op = "properties" =>
        IF config.simulator
        THEN result = Return("None", <<>>) /\ apiCalls = <<>>
        ELSE /\ Len(apiCalls) = 1
             /\ apiCalls[1].fn = "backend_properties"
             /\ apiCalls[1].name = config.name

C4_Witness ==
    /\ op = "properties"
    /\ config.simulator
    /\ result.kind = "return"
    /\ result.value = "None"
    /\ apiCalls = <<>>

\* the get_job reply of the call in progress
TheJobInfo == apiReplies.job.job_info
GotJobInfo == op = "retrieve_job" /\ ~apiReplies.job.raises
HasErrorField == "error" \in DOMAIN TheJobInfo
HasBackendName ==
    "backend" \in DOMAIN TheJobInfo /\ TheJobInfo["backend"].k = "name"
IsQobject ==
    "kind" \in DOMAIN TheJobInfo /\ TheJobInfo["kind"] = Str("q-object")

\* C5: a get_job response with an error field, whatever else it holds, makes
\* retrieve_job fail with an IBMQBackendError whose message holds the job id
\* asked for and the response's error message; no job is returned.
C5_ErrorFieldFails ==
    (GotJobInfo /\ HasErrorField) =>
        /\ result.kind = "raise"
        /\ result.exc = "IBMQBackendError"
        /\ Contains(result.msg, args.job_id)
        /\ Contains(result.msg, TheJobInfo["error"].v)
        /\ result.jobs = <<>>

C5_Witness ==
    /\ GotJobInfo /\ HasErrorField /\ HasBackendName /\ IsQobject
    /\ TheJobInfo["backend"].v = config.name
    /\ args.job_id = "abc"
    /\ result.exc = "IBMQBackendError"
    /\ result.msg = <<"Failed to get job \"", "abc", "\": ", "not found">>

\* C6: a response without error field whose backend name is another one than
\* this handle's makes retrieve_job warn, naming both backends, and fail with
\* IBMQBackendError; no job is returned.
C6_AnotherBackendWarnsAndFails ==
    (GotJobInfo /\ ~HasErrorField /\ HasBackendName
        /\ TheJobInfo["backend"].v # config.name) =>
        /\ Len(warned) >= 1
        /\ warned[1].category = "UserWarning"
        /\ Contains(warned[1].msg, TheJobInfo["backend"].v)
        /\ Contains(warned[1].msg, config.name)
        /\ result.kind = "raise"
        /\ result.exc = "IBMQBackendError"
        /\ result.jobs = <<>>

C6_Witness ==
    /\ GotJobInfo /\ ~HasErrorField /\ HasBackendName /\ IsQobject
    /\ TheJobInfo["backend"].v # config.name
    /\ Len(warned) = 1
    /\ result.kind = "raise"
    /\ Contains(result.msg, "\": job does not belong to backend \"")

\* C7: a response without error field, of this handle's backend, whose kind
\* is absent or not 'q-object' makes retrieve_job emit a deprecation warning
\* and fail with IBMQBackendError ('job in pre-qobj format'); no job is
\* returned.
C7_PreQobjWarnsAndFails ==
    (GotJobInfo /\ ~HasErrorField /\ HasBackendName
        /\ TheJobInfo["backend"].v = config.name /\ ~IsQobject) =>
        /\ Len(warned) = 1
        /\ warned[1].category = "DeprecationWarning"
        /\ result.kind = "raise"
        /\ result.exc = "IBMQBackendError"
        /\ Contains(result.msg, "job in pre-qobj format")
        /\ result.jobs = <<>>

C7_Witness ==
    /\ GotJobInfo /\ ~HasErrorField /\ HasBackendName
    /\ TheJobInfo["backend"].v = config.name
    /\ "kind" \notin DOMAIN TheJobInfo
    /\ Len(warned) = 1
    /\ warned[1].category = "DeprecationWarning"
    /\ result.exc = "IBMQBackendError"

\* C8: whatever get_job does (an ApiError, or a job-info dict in which error,
\* backend.name and kind are each present or not), retrieve_job returns a job
\* or fails with IBMQBackendError, and an ApiError is re-raised as an
\* IBMQBackendError holding its message.
C8_OnlyIBMQBackendErrorEscapes ==
    op = "retrieve_job" =>
        /\ \/ result.kind = "return" /\ Len(result.jobs) = 1
           \/ result.kind = "raise" /\ result.exc = "IBMQBackendError"
        /\ apiReplies.job.raises =>
              /\ result.kind = "raise"
              /\ Contains(result.msg, apiReplies.job.msg)

\* the first record of a job-info list that is not in q-object format;
\* Len + 1 when there is none
Legacy(job_info) ==
    "kind" \notin DOMAIN job_info \/ job_info["kind"] # Str("q-object")

FirstLegacy(l) ==
    IF \E i \in 1..Len(l) : Legacy(l[i])
    THEN CHOOSE i \in 1..Len(l) :
            Legacy(l[i]) /\ \A j \in 1..(i - 1) : ~Legacy(l[j])
    ELSE Len(l) + 1

\* C9: jobs() returns jobs for exactly the records before the first legacy
\* record, in order, each with its record's id, creation date and status; a
\* deprecation warning is emitted exactly when there is a legacy record, and
\* it names the first legacy record's id and no other.
C9_JobsStopAtFirstLegacy ==
    (op = "jobs" /\ apiCalls # <<>>) =>
        LET l == apiReplies.status_jobs
            n == FirstLegacy(l)
        IN  /\ result.kind = "return"
            /\ Len(result.jobs) = n - 1
            /\ \A i \in 1..(n - 1) :
                  result.jobs[i] =
                      [job_id |-> l[i]["id"],
                       creation_date |-> l[i]["creationDate"],
                       api_status |-> l[i]["status"]]
            /\ (warned # <<>>) <=> (n <= Len(l))
            /\ (n <= Len(l)) =>
                  /\ Len(warned) = 1
                  /\ warned[1].category = "DeprecationWarning"
                  /\ warned[1].msg = <<OldJobsText, l[n]["id"].v>>

C9_Witness ==
    /\ op = "jobs"
    /\ Len(apiCalls) = 1
    /\ Len(apiReplies.status_jobs) = 3
    /\ ~Legacy(apiReplies.status_jobs[1])
    /\ Legacy(apiReplies.status_jobs[2])
    /\ ~Legacy(apiReplies.status_jobs[3])
    /\ Len(result.jobs) = 1
    /\ Len(warned) = 1

\* C10: retrieve_job checks the error field, then the backend name, then the
\* kind, and stops at the first that fails: it emits at most one warning, none
\* when there is an error field; a response of another backend in legacy
\* format gets the wrong-backend warning and failure only; and a job is
\* returned only when all three checks pass.
C10_ChecksInOrder ==
    GotJobInfo =>
        /\ Len(warned) <= 1
        /\ HasErrorField => warned = <<>>
        /\ (~HasErrorField /\ HasBackendName
                /\ TheJobInfo["backend"].v # config.name /\ ~IsQobject) =>
              /\ Len(warned) = 1
              /\ warned[1].category = "UserWarning"
              /\ result.kind = "raise"
              /\ Contains(result.msg, "\": job does not belong to backend \"")
        /\ result.kind = "return" =>
              /\ ~HasErrorField
              /\ HasBackendName
              /\ TheJobInfo["backend"].v = config.name
              /\ IsQobject

C10_Witness ==
    /\ GotJobInfo /\ ~HasErrorField /\ HasBackendName
    /\ TheJobInfo["backend"].v # config.name
    /\ "kind" \in DOMAIN TheJobInfo /\ TheJobInfo["kind"] = Str("other")
    /\ Len(warned) = 1
    /\ warned[1].category = "UserWarning"
    /\ result.exc = "IBMQBackendError"

====
